---- MODULE Spec2Model ----
(***************************************************************************)
(* Alert target notifier of the log-analytics server                       *)
(* (src/src/alerts/target.rs): the per-target TimeoutState, Target::call   *)
(* and the repeat task spawned by Target::spawn_timeout_task; the parsing   *)
(* and serialization of a target, the Alertmanager request body, and the   *)
(* rolling_mean window function (src/src/query/rolling_mean.rs).           *)
(***************************************************************************)
EXTENDS Integers, Sequences, FiniteSets, TLC

\* ------------------------------------------------------------------ bounds
\* Largest n of Retry::Finite(n) a target is built with.
MaxTimes == 3
\* Number of Target::call invocations in one behaviour.
MaxCalls == 3
\* Number of registry lookups (loop iterations started) over all repeat tasks.
MaxTicks == 3
\* Number of Target::call invocations and registry lookups together in one
\* behaviour with failing transports.
MaxSteps == 4

\* ------------------------------------------------------------------ data
AlertState == {"Triggered", "Resolved", "Silenced"}

\* AlertState::default(), used by TimeoutState::default().
DefaultAlertState == "Resolved"

\* What ALERTS.get_state(alert_id).await yields: Ok(state) or Err ("NotFound").
RegistryAnswer == AlertState \cup {"NotFound"}

Infinite == [kind |-> "Infinite", n |-> 0]
Finite(n) == [kind |-> "Finite", n |-> n]

\* enum Retry { Infinite, Finite(usize) }
Retry == {Infinite} \cup {Finite(n) : n \in 0..MaxTimes}

\* #[derive(Default)] struct TimeoutState
TimeoutStateDefault ==
    [alert_state |-> DefaultAlertState, timed_out |-> FALSE, awaiting_resolve |-> FALSE]

VARIABLES
    state,      \* the TimeoutState behind timeout.state (Arc<Mutex<..>>)
    times,      \* timeout.times, fixed when the Target is built
    checked,    \* build profile: TRUE when integer overflow checks are compiled in
    tasks,      \* the repeat tasks spawned so far, in spawn order
    spawning,   \* contexts of the threads in Target::call past drop(state), about to spawn
    sent,       \* log of call_target invocations, in order
    win,        \* bookkeeping over the current timed_out window
    last,       \* the operation that produced this state, and the state before it
    calls,      \* the alert_state of every context passed to Target::call, in order
    ncalls,     \* Target::call invocations so far
    nticks,     \* registry lookups so far
    failed,     \* whether a dispatched transport call has ended with an error
    parse,      \* a serialized target and what parsing / serializing made of it
    sink,       \* a context handed to the Alertmanager sink and the body it built
    roll,       \* a partition, the rolling_mean evaluator over it and its outputs
    rms,        \* a RollingMeanState driven call by call, and the call made last
    mx          \* Target::call and the repeat tasks statement by statement, with the mutex

\* The variables of the notifier, and those of the stand-alone parts.
notifier ==
    <<state, times, checked, tasks, spawning, sent, win, last, calls, ncalls, nticks>>
aux == <<parse, sink, roll, rms, mx>>

vars == <<state, times, checked, tasks, spawning, sent, win, last, calls, ncalls, nticks,
          failed, parse, sink, roll, rms, mx>>

\* ------------------------------------------------------------ pure parts

\* call_target(target, context): one detached transport task is spawned.  The
\* log entry keeps who dispatched, the context's alert_state and whether the
\* TimeoutState mutex guard was still alive at that point.
call_target(log, by, st, locked) ==
    Append(log, [by |-> by, st |-> st, locked |-> locked])

\* Target::call without the Triggered branch's timed_out test.
call_AlwaysDispatch(S, ev) ==
    IF ev = "Triggered"
    THEN [state |-> [alert_state |-> ev, timed_out |-> TRUE, awaiting_resolve |-> TRUE],
          dispatch |-> TRUE, spawn |-> ~S.timed_out]
    ELSE IF S.timed_out
         THEN IF S.awaiting_resolve
              THEN [state |-> [alert_state |-> ev, timed_out |-> TRUE,
                               awaiting_resolve |-> FALSE],
                    dispatch |-> TRUE, spawn |-> FALSE]
              ELSE [state |-> [S EXCEPT !.alert_state = ev],
                    dispatch |-> FALSE, spawn |-> FALSE]
         ELSE [state |-> [S EXCEPT !.alert_state = ev],
               dispatch |-> TRUE, spawn |-> FALSE]

\* Target::call without `state.awaiting_resolve = true` in the Triggered branch.
call_NoAwaiting(S, ev) ==
    IF ev = "Triggered"
    THEN IF ~S.timed_out
         THEN [state |-> [alert_state |-> ev, timed_out |-> TRUE,
                          awaiting_resolve |-> S.awaiting_resolve],
               dispatch |-> TRUE, spawn |-> TRUE]
         ELSE [state |-> [S EXCEPT !.alert_state = ev],
               dispatch |-> FALSE, spawn |-> FALSE]
    ELSE IF S.timed_out
         THEN IF S.awaiting_resolve
              THEN [state |-> [alert_state |-> ev, timed_out |-> TRUE,
                               awaiting_resolve |-> FALSE],
                    dispatch |-> TRUE, spawn |-> FALSE]
              ELSE [state |-> [S EXCEPT !.alert_state = ev],
                    dispatch |-> FALSE, spawn |-> FALSE]
         ELSE [state |-> [S EXCEPT !.alert_state = ev],
               dispatch |-> TRUE, spawn |-> FALSE]

\* Target::call that spawns a repeat task for every Triggered event.
call_AlwaysSpawn(S, ev) ==
    IF ev = "Triggered"
    THEN IF ~S.timed_out
         THEN [state |-> [alert_state |-> ev, timed_out |-> TRUE,
                          awaiting_resolve |-> TRUE],
               dispatch |-> TRUE, spawn |-> TRUE]
         ELSE [state |-> [S EXCEPT !.alert_state = ev],
               dispatch |-> FALSE, spawn |-> TRUE]
    ELSE IF S.timed_out
         THEN IF S.awaiting_resolve
              THEN [state |-> [alert_state |-> ev, timed_out |-> TRUE,
                               awaiting_resolve |-> FALSE],
                    dispatch |-> TRUE, spawn |-> FALSE]
              ELSE [state |-> [S EXCEPT !.alert_state = ev],
                    dispatch |-> FALSE, spawn |-> FALSE]
         ELSE [state |-> [S EXCEPT !.alert_state = ev],
               dispatch |-> TRUE, spawn |-> FALSE]

\* Target::call that forwards a non-firing event without clearing awaiting_resolve.
call_KeepAwaiting(S, ev) ==
    IF ev = "Triggered"
    THEN IF ~S.timed_out
         THEN [state |-> [alert_state |-> ev, timed_out |-> TRUE,
                          awaiting_resolve |-> TRUE],
               dispatch |-> TRUE, spawn |-> TRUE]
         ELSE [state |-> [S EXCEPT !.alert_state = ev],
               dispatch |-> FALSE, spawn |-> FALSE]
    ELSE IF S.timed_out
         THEN IF S.awaiting_resolve
              THEN [state |-> [S EXCEPT !.alert_state = ev],
                    dispatch |-> TRUE, spawn |-> FALSE]
              ELSE [state |-> [S EXCEPT !.alert_state = ev],
                    dispatch |-> FALSE, spawn |-> FALSE]
         ELSE [state |-> [S EXCEPT !.alert_state = ev],
               dispatch |-> TRUE, spawn |-> FALSE]

\* Target::call that forwards every non-firing event inside a window.
call_NeverDrop(S, ev) ==
    IF ev = "Triggered"
    THEN IF ~S.timed_out
         THEN [state |-> [alert_state |-> ev, timed_out |-> TRUE,
                          awaiting_resolve |-> TRUE],
               dispatch |-> TRUE, spawn |-> TRUE]
         ELSE [state |-> [S EXCEPT !.alert_state = ev],
               dispatch |-> FALSE, spawn |-> FALSE]
    ELSE IF S.timed_out
         THEN [state |-> [alert_state |-> ev, timed_out |-> TRUE,
                          awaiting_resolve |-> FALSE],
               dispatch |-> TRUE, spawn |-> FALSE]
         ELSE [state |-> [S EXCEPT !.alert_state = ev],
               dispatch |-> TRUE, spawn |-> FALSE]

\* Target::call that drops a non-firing event on an idle target.
call_DropIdle(S, ev) ==
    IF ev = "Triggered"
    THEN IF ~S.timed_out
         THEN [state |-> [alert_state |-> ev, timed_out |-> TRUE,
                          awaiting_resolve |-> TRUE],
               dispatch |-> TRUE, spawn |-> TRUE]
         ELSE [state |-> [S EXCEPT !.alert_state = ev],
               dispatch |-> FALSE, spawn |-> FALSE]
    ELSE IF S.timed_out
         THEN IF S.awaiting_resolve
              THEN [state |-> [alert_state |-> ev, timed_out |-> TRUE,
                               awaiting_resolve |-> FALSE],
                    dispatch |-> TRUE, spawn |-> FALSE]
              ELSE [state |-> [S EXCEPT !.alert_state = ev],
                    dispatch |-> FALSE, spawn |-> FALSE]
         ELSE [state |-> [S EXCEPT !.alert_state = ev],
               dispatch |-> FALSE, spawn |-> FALSE]

\* Target::call that also spawns a repeat task for a non-firing event on an
\* idle target.
call_SpawnOnNonFiring(S, ev) ==
    IF ev = "Triggered"
    THEN IF ~S.timed_out
         THEN [state |-> [alert_state |-> ev, timed_out |-> TRUE,
                          awaiting_resolve |-> TRUE],
               dispatch |-> TRUE, spawn |-> TRUE]
         ELSE [state |-> [S EXCEPT !.alert_state = ev],
               dispatch |-> FALSE, spawn |-> FALSE]
    ELSE IF S.timed_out
         THEN IF S.awaiting_resolve
              THEN [state |-> [alert_state |-> ev, timed_out |-> TRUE,
                               awaiting_resolve |-> FALSE],
                    dispatch |-> TRUE, spawn |-> FALSE]
              ELSE [state |-> [S EXCEPT !.alert_state = ev],
                    dispatch |-> FALSE, spawn |-> FALSE]
         ELSE [state |-> [S EXCEPT !.alert_state = ev],
               dispatch |-> TRUE, spawn |-> TRUE]

\* Target::call that writes alert_state only on the paths that dispatch.
call_DropKeepsAlertState(S, ev) ==
    IF ev = "Triggered"
    THEN IF ~S.timed_out
         THEN [state |-> [alert_state |-> ev, timed_out |-> TRUE,
                          awaiting_resolve |-> TRUE],
               dispatch |-> TRUE, spawn |-> TRUE]
         ELSE [state |-> S, dispatch |-> FALSE, spawn |-> FALSE]
    ELSE IF S.timed_out
         THEN IF S.awaiting_resolve
              THEN [state |-> [alert_state |-> ev, timed_out |-> TRUE,
                               awaiting_resolve |-> FALSE],
                    dispatch |-> TRUE, spawn |-> FALSE]
              ELSE [state |-> S, dispatch |-> FALSE, spawn |-> FALSE]
         ELSE [state |-> [S EXCEPT !.alert_state = ev],
               dispatch |-> TRUE, spawn |-> FALSE]

\* Target::call(context) on TimeoutState S with context.alert_info.alert_state
\* = ev: the TimeoutState it leaves, whether call_target runs and whether
\* spawn_timeout_task runs.  alert_state is written first on every path.
call(S, ev) ==
    IF ev = "Triggered"
    THEN IF ~S.timed_out
         THEN [state |-> [alert_state |-> ev, timed_out |-> TRUE,
                          awaiting_resolve |-> TRUE],
               dispatch |-> TRUE, spawn |-> TRUE]
         ELSE [state |-> [S EXCEPT !.alert_state = ev],
               dispatch |-> FALSE, spawn |-> FALSE]
    ELSE IF S.timed_out
         THEN IF S.awaiting_resolve
              THEN [state |-> [alert_state |-> ev, timed_out |-> TRUE,
                               awaiting_resolve |-> FALSE],
                    dispatch |-> TRUE, spawn |-> FALSE]
              ELSE [state |-> [S EXCEPT !.alert_state = ev],
                    dispatch |-> FALSE, spawn |-> FALSE]
         ELSE [state |-> [S EXCEPT !.alert_state = ev],
               dispatch |-> TRUE, spawn |-> FALSE]

\* The closure without `state.awaiting_resolve = true` on Triggered.
sleep_and_check_NoRearm(S, current_state) ==
    IF current_state = "Triggered"
    THEN [state |-> S, should_call |-> TRUE]
    ELSE [state |-> [S EXCEPT !.timed_out = FALSE], should_call |-> FALSE]

\* The closure asking for a dispatch whatever the current state is.
sleep_and_check_AlwaysCall(S, current_state) ==
    IF current_state = "Triggered"
    THEN [state |-> [S EXCEPT !.awaiting_resolve = TRUE], should_call |-> TRUE]
    ELSE [state |-> [S EXCEPT !.timed_out = FALSE], should_call |-> TRUE]

\* The closure sleep_and_check_if_call after its sleep: under the lock, a
\* Triggered current_state re-arms awaiting_resolve and asks for a dispatch,
\* anything else clears timed_out only.
sleep_and_check_if_call(S, current_state) ==
    IF current_state = "Triggered"
    THEN [state |-> [S EXCEPT !.awaiting_resolve = TRUE], should_call |-> TRUE]
    ELSE [state |-> [S EXCEPT !.timed_out = FALSE], should_call |-> FALSE]

\* The task tokio::spawn creates in spawn_timeout_task: it captures the retry
\* policy and the context of the call that spawned it, and has run no iteration.
\* obs keeps the answers ALERTS.get_state gave this task, in order.
spawn_timeout_task(retry, ctx) ==
    [pc |-> "loop", retry |-> retry, ctx |-> ctx, iter |-> 0, cur |-> "none",
     obs |-> <<>>]

\* A reset that only clears timed_out (the commented-out fallback of the task).
reset_OnlyTimedOut(S) == [S EXCEPT !.timed_out = FALSE]

\* No reset at all.
reset_Skipped(S) == S

\* `*state.lock().unwrap() = TimeoutState::default()`: what the task writes over
\* TimeoutState S on a failed lookup and after the match.
reset_state(S) == TimeoutStateDefault

\* `times - 1` of `for _ in 0..(times - 1)` on usize underflows for times = 0.
Underflows(retry) == retry.kind = "Finite" /\ retry.n = 0

\* A Finite loop over 0..times instead of 0..(times - 1).
LoopContinues_OffByOne(t) ==
    \/ t.retry.kind = "Infinite"
    \/ Underflows(t.retry)
    \/ t.iter < t.retry.n

\* An Infinite loop that ends once an iteration observed a non-firing state.
LoopContinues_StopOnNonFiring(t) ==
    \/ t.retry.kind = "Infinite"
          /\ (IF t.iter = 0 THEN TRUE ELSE t.obs[t.iter] = "Triggered")
    \/ Underflows(t.retry)
    \/ t.retry.kind = "Finite" /\ t.iter < t.retry.n - 1

\* Whether the loop of a task that completed `iter` iterations runs again.
\* Retry::Infinite loops for ever; Finite(times) runs times - 1 iterations,
\* where a wrapped 0 - 1 is usize::MAX, above every count reached here.
LoopContinues(t) ==
    \/ t.retry.kind = "Infinite"
    \/ Underflows(t.retry)
    \/ t.iter < t.retry.n - 1

Live(t) == t.pc \in {"loop", "sleep", "send"}

LiveTasks == {i \in DOMAIN tasks : Live(tasks[i])}

\* ------------------------------------------------------------ bookkeeping

NoWin == [trig |-> 0, fwd |-> 0, seen |-> 0, arm |-> 0]

\* Counters over the current timed_out window: Triggered dispatches made by
\* Target::call (trig), non-firing events Target::call forwarded (fwd),
\* non-firing events passed to Target::call (seen), and non-firing events
\* forwarded since awaiting_resolve was last set to true (arm).  S and S2 are
\* the TimeoutState before and after the step; armed says the step wrote
\* awaiting_resolve = true.  The counters restart when timed_out is false.
WinAfter(S, S2, dtrig, dfwd, dseen, armed) ==
    IF ~S2.timed_out THEN NoWin
    ELSE LET base == IF S.timed_out THEN win ELSE NoWin
             infwd == IF S.timed_out THEN dfwd ELSE 0
         IN  [trig |-> base.trig + dtrig,
              fwd  |-> base.fwd + infwd,
              seen |-> base.seen + (IF S.timed_out THEN dseen ELSE 0),
              arm  |-> IF armed THEN 0 ELSE base.arm + infwd]

Did(op, arg) == [op |-> op, arg |-> arg, pre |-> state]

\* ------------------------------------------------- parsing a target

\* Option<T>: None is <<>>, Some(x) is <<x>>.
None == <<>>
Some(x) == <<x>>

TargetKind == {"slack", "webhook", "alertmanager"}

\* A humantime text is a sequence of <number><unit> parts, "1m 30s" being
\* <<[n |-> 1, u |-> "m"], [n |-> 30, u |-> "s"]>>.
Part(n, u) == [n |-> n, u |-> u]

\* std::time::Duration: whole seconds and the nanoseconds below one second.
Duration(secs, nanos) == [secs |-> secs, nanos |-> nanos]

NanosPerSec == 1000000000

\* Seconds of one unit of humantime's parse_unit; 0 for the units below one
\* second and for a unit it does not know.  A month is 30.44 days and a year
\* 365.25 days.
UnitSeconds(u) ==
    CASE u \in {"seconds", "second", "secs", "sec", "s"} -> 1
      [] u \in {"minutes", "minute", "min", "mins", "m"} -> 60
      [] u \in {"hours", "hour", "hr", "hrs", "h"} -> 3600
      [] u \in {"days", "day", "d"} -> 86400
      [] u \in {"weeks", "week", "wks", "wk", "w"} -> 604800
      [] u \in {"months", "month", "M"} -> 2630016
      [] u \in {"years", "year", "yrs", "yr", "y"} -> 31557600
      [] OTHER -> 0

\* Nanoseconds of one unit below one second; 0 for every other unit.
UnitNanos(u) ==
    CASE u \in {"nanos", "nsec", "ns"} -> 1
      [] u \in {"usec", "us", "µs"} -> 1000
      [] u \in {"millis", "msec", "ms"} -> 1000000
      [] OTHER -> 0

\* parse_unit knows the unit.
UnitKnown(u) == UnitSeconds(u) > 0 \/ UnitNanos(u) > 0

\* The parts of a text added up as parse_unit does, one part after the other:
\* nanoseconds above one second are carried into the seconds.
RECURSIVE SumParts(_)
SumParts(text) ==
    IF text = <<>> THEN Duration(0, 0)
    ELSE LET cur == SumParts(SubSeq(text, 1, Len(text) - 1))
             part == text[Len(text)]
             nsec == cur.nanos + part.n * UnitNanos(part.u)
         IN  Duration(cur.secs + part.n * UnitSeconds(part.u) + nsec \div NanosPerSec,
                      nsec % NanosPerSec)

\* humantime::parse_duration(text): the text "0", a number without a unit, is
\* the zero duration; else Err for an empty text or an unknown unit (a missing
\* unit included), else the sum of the parts.  (The numbers here stay far
\* below the u64 overflow that is its other error.)
parse_duration(text) ==
    IF text = <<Part(0, "")>> THEN [ok |-> TRUE, dur |-> Duration(0, 0)]
    ELSE IF text = <<>> \/ \E k \in DOMAIN text : ~UnitKnown(text[k].u)
    THEN [ok |-> FALSE, dur |-> Duration(0, 0)]
    ELSE [ok |-> TRUE, dur |-> SumParts(text)]

\* item_plural of format_duration: nothing for 0, "1year", "2years".
item_plural(name, value) ==
    IF value = 0 THEN <<>>
    ELSE IF value = 1 THEN <<Part(1, name)>>
    ELSE <<Part(value, name \o "s")>>

\* item of format_duration: nothing for 0, else the value and the unit.
item(name, value) == IF value = 0 THEN <<>> ELSE <<Part(value, name)>>

\* humantime::format_duration(d), as humantime_serde writes an interval: the
\* non-zero years, months, days, hours, minutes, seconds, milli-, micro- and
\* nanoseconds, in this order; "0s" for zero.
format_duration(d) ==
    LET years == d.secs \div 31557600
        ydays == d.secs % 31557600
        months == ydays \div 2630016
        mdays == ydays % 2630016
        days == mdays \div 86400
        day_secs == mdays % 86400
        hours == day_secs \div 3600
        minutes == (day_secs % 3600) \div 60
        seconds == day_secs % 60
        millis == d.nanos \div 1000000
        micros == (d.nanos \div 1000) % 1000
        nanosec == d.nanos % 1000
    IN  IF d.secs = 0 /\ d.nanos = 0 THEN <<Part(0, "s")>>
        ELSE item_plural("year", years) \o item_plural("month", months)
             \o item_plural("day", days) \o item("h", hours) \o item("m", minutes)
             \o item("s", seconds) \o item("ms", millis) \o item("us", micros)
             \o item("ns", nanosec)

\* impl Default for Retry
RetryDefault == Finite(1)

\* impl Default for Timeout (the TimeoutState is kept in `state`).
TimeoutDefault == [interval |-> Duration(60, 0), times |-> RetryDefault]

\* The interval texts a serialized target is drawn with: "30s", "1m", "90s",
\* "1m 30s", "36h", "1500ms", "1wk", "0", "2q" (no such unit), "5" (no unit)
\* and the empty text.
IntervalText ==
    { <<Part(30, "s")>>, <<Part(1, "m")>>, <<Part(90, "s")>>,
      <<Part(1, "m"), Part(30, "s")>>, <<Part(36, "h")>>, <<Part(1500, "ms")>>,
      <<Part(1, "wk")>>, <<Part(0, "")>>, <<Part(2, "q")>>, <<Part(5, "")>>, <<>> }

\* The `times` member of a JSON repeat block: absent, null or a number.
JsonTimes ==
    {[kind |-> "absent", n |-> 0], [kind |-> "null", n |-> 0]}
        \cup {[kind |-> "num", n |-> n] : n \in 0..MaxTimes}

\* The `repeat` member: absent, or a block whose interval may be absent.
JsonRepeat ==
    {None} \cup
    {Some([interval |-> i, times |-> t]) :
        i \in {None} \cup {Some(x) : x \in IntervalText}, t \in JsonTimes}

\* A serialized target: the type tag, skip_tls_check (a member of the webhook
\* and alertmanager kinds only, which may be left out) and the repeat block.
\* The endpoint and the other transport members pass through unchanged.
JsonTarget ==
    {[type |-> k, skip_tls_check |-> c, repeat |-> r] :
        k \in TargetKind, c \in {"absent", "true", "false"}, r \in JsonRepeat}
    \ {d \in [type : {"slack"}, skip_tls_check : {"true", "false"}, repeat : JsonRepeat] : TRUE}

\* serde's Deserialize of TargetVerifier: TargetType with its #[serde(default)]
\* members filled in, and RepeatVerifier { interval: Option<String>,
\* times: Option<usize> }, for which null and absent are both None.
from_json(doc) ==
    [target |-> [type |-> doc.type,
                 skip_tls_check |->
                    IF doc.type = "slack" THEN "none"
                    ELSE IF doc.skip_tls_check = "absent" THEN "false"
                    ELSE doc.skip_tls_check],
     repeat |-> IF doc.repeat = None THEN None
                ELSE Some([interval |-> doc.repeat[1].interval,
                           times |-> IF doc.repeat[1].times.kind = "num"
                                     THEN Some(doc.repeat[1].times.n)
                                     ELSE None])]

NoTarget == [target |-> [type |-> "none", skip_tls_check |-> "none"],
             interval |-> Duration(0, 0), times |-> Infinite]

\* try_from without the Retry::Infinite default of the alertmanager kind.
try_from_NoAlertmanagerDefault(value) ==
    LET none == value.repeat = None
        rc == IF none THEN [interval |-> None, times |-> None] ELSE value.repeat[1]
        iv == IF rc.interval = None THEN [ok |-> TRUE, dur |-> TimeoutDefault.interval]
              ELSE parse_duration(rc.interval[1])
    IN  IF ~iv.ok THEN [ok |-> FALSE, val |-> NoTarget]
        ELSE [ok |-> TRUE,
              val |-> [target |-> value.target,
                       interval |-> iv.dur,
                       times |-> IF rc.times = None THEN TimeoutDefault.times
                                 ELSE Finite(rc.times[1])]]

\* impl TryFrom<TargetVerifier> for Target: Timeout::default(), Infinite for
\* the alertmanager kind, then the repeat block's interval (an unparsable one
\* is the only error) and times, each when given.
try_from(value) ==
    LET none == value.repeat = None
        rc == IF none THEN [interval |-> None, times |-> None] ELSE value.repeat[1]
        iv == IF rc.interval = None THEN [ok |-> TRUE, dur |-> TimeoutDefault.interval]
              ELSE parse_duration(rc.interval[1])
        d0 == IF value.target.type = "alertmanager" THEN Infinite
              ELSE TimeoutDefault.times
    IN  IF ~iv.ok THEN [ok |-> FALSE, val |-> NoTarget]
        ELSE [ok |-> TRUE,
              val |-> [target |-> value.target,
                       interval |-> iv.dur,
                       times |-> IF rc.times = None THEN d0
                                 ELSE Finite(rc.times[1])]]

\* Deserialize of Target, #[serde(try_from = "TargetVerifier")].
deserialize(doc) == try_from(from_json(doc))

\* Serialize that leaves `times` out of the repeat block.
serialize_ElideTimes(target) ==
    [type |-> target.target.type,
     skip_tls_check |-> IF target.target.type = "slack" THEN "absent"
                        ELSE target.target.skip_tls_check,
     repeat |-> Some([interval |-> Some(format_duration(target.interval)),
                      times |-> [kind |-> "absent", n |-> 0]])]

\* Serialize of Target: the flattened TargetType, and under "repeat" the
\* Timeout with its interval written by humantime_serde and its times written
\* untagged, Infinite as null and Finite(n) as n; the state is skipped.
serialize(target) ==
    [type |-> target.target.type,
     skip_tls_check |-> IF target.target.type = "slack" THEN "absent"
                        ELSE target.target.skip_tls_check,
     repeat |-> Some([interval |-> Some(format_duration(target.interval)),
                      times |-> IF target.times.kind = "Infinite"
                                THEN [kind |-> "null", n |-> 0]
                                ELSE [kind |-> "num", n |-> target.times.n]])]

NoResult == [ok |-> FALSE, val |-> NoTarget]

NoJson == [type |-> "none", skip_tls_check |-> "absent", repeat |-> None]

\* Nothing is being parsed.
ParseIdle ==
    [stage |-> "idle", doc |-> NoJson, got |-> NoResult, out |-> NoJson,
     again |-> NoResult]

\* ------------------------------------------------------ the sinks

AlertName == {"cpu", "disk"}

\* What the clock reads when a sink builds its body.
Clock == {"t1", "t2"}

\* The part of a Context the sinks read.
Context == [alert_state : AlertState, alert_name : AlertName]

\* Context::default_alert_string / default_resolved_string /
\* default_silenced_string: three renderings of the context, kept apart by
\* their first word.
default_alert_string(ctx) == <<"alert", ctx.alert_name>>
default_resolved_string(ctx) == <<"resolved", ctx.alert_name>>
default_silenced_string(ctx) == <<"silenced", ctx.alert_name>>

\* One element of the Alertmanager array.  The deployment labels are copied
\* from the context like alertname and are left out.
Alert(name, status, reason, endsAt) ==
    [labels |-> [alertname |-> name, status |-> status],
     annotations |-> [message |-> <<"MESSAGE">>, reason |-> reason],
     endsAt |-> endsAt]

\* The Alertmanager body with endsAt written on Silenced as on Resolved.
alertmanager_body_SilencedEnds(ctx, now) ==
    CASE ctx.alert_state = "Triggered" ->
            <<Alert(ctx.alert_name, "triggered", <<"REASON">>, None)>>
      [] ctx.alert_state = "Resolved" ->
            <<Alert(ctx.alert_name, "resolved", default_resolved_string(ctx), Some(now))>>
      [] ctx.alert_state = "Silenced" ->
            <<Alert(ctx.alert_name, "silenced", default_silenced_string(ctx), Some(now))>>

\* The `alerts` value AlertManager::call posts: the json! array of one alert,
\* then the match on alert_state that fills in labels.status and, off
\* Triggered, annotations.reason, and endsAt on Resolved alone.
alertmanager_body(ctx, now) ==
    CASE ctx.alert_state = "Triggered" ->
            <<Alert(ctx.alert_name, "triggered", <<"REASON">>, None)>>
      [] ctx.alert_state = "Resolved" ->
            <<Alert(ctx.alert_name, "resolved", default_resolved_string(ctx), Some(now))>>
      [] ctx.alert_state = "Silenced" ->
            <<Alert(ctx.alert_name, "silenced", default_silenced_string(ctx), None)>>

\* The text SlackWebHook::call wraps in {"text": ..} and OtherWebHook::call
\* posts raw.
webhook_text(ctx) ==
    CASE ctx.alert_state = "Triggered" -> default_alert_string(ctx)
      [] ctx.alert_state = "Resolved" -> default_resolved_string(ctx)
      [] ctx.alert_state = "Silenced" -> default_silenced_string(ctx)

\* TargetType::call(payload): the body the sink of this kind posts.
target_call(kind, ctx, now) ==
    IF kind = "alertmanager"
    THEN [kind |-> kind, alerts |-> alertmanager_body(ctx, now), text |-> <<>>]
    ELSE [kind |-> kind, alerts |-> <<>>, text |-> webhook_text(ctx)]

\* No sink has been called.
SinkIdle ==
    [stage |-> "idle", ctx |-> [alert_state |-> DefaultAlertState, alert_name |-> "cpu"],
     now |-> "t1", body |-> [kind |-> "none", alerts |-> <<>>, text |-> <<>>]]

\* --------------------------------------------------------- rolling_mean

\* Rows of the partition a query is run over.
MaxRows == 3
\* Largest n of ROWS BETWEEN n PRECEDING AND CURRENT ROW.
MaxPreceding == 2

\* RollingMeanEvaluator::new(300) in partition_evaluator.
DefaultWindowSize == 300

\* f64 values: a finite number (whole numbers small enough that every sum of
\* them is exact), an infinity with its sign, or NaN.
F(x) == [k |-> "fin", v |-> x]
PosInf == [k |-> "inf", v |-> 1]
NegInf == [k |-> "inf", v |-> -1]
NaN == [k |-> "nan", v |-> 0]

\* f64 negation, addition and subtraction (IEEE 754): NaN is absorbing, an
\* infinity absorbs finite numbers, and inf - inf is NaN.
fneg(a) == IF a.k = "nan" THEN NaN ELSE [k |-> a.k, v |-> 0 - a.v]
fadd(a, b) ==
    IF a.k = "nan" \/ b.k = "nan" THEN NaN
    ELSE IF a.k = "fin" /\ b.k = "fin" THEN F(a.v + b.v)
    ELSE IF a.k = "fin" THEN b
    ELSE IF b.k = "fin" THEN a
    ELSE IF a.v = b.v THEN a
    ELSE NaN
fsub(a, b) == fadd(a, fneg(b))

\* A Float64 cell: its validity bit and its value.
Null == [valid |-> FALSE, v |-> F(0)]
Val(x) == [valid |-> TRUE, v |-> F(x)]
Cell == {Null, Val(10), Val(20), Val(30)}

\* The columns of 1..MaxRows cells.
Column == UNION {[1..n -> Cell] : n \in 1..MaxRows}

\* RollingMeanState::new()
RollingMeanStateNew == [buffer |-> <<>>, sum |-> F(0), count |-> 0]

\* RollingMeanEvaluator::new(window_size)
RollingMeanEvaluatorNew(window_size) ==
    [window_size |-> window_size, state |-> RollingMeanStateNew]

\* RollingMeanState::add_value
add_value(st, value) ==
    [buffer |-> Append(st.buffer, value), sum |-> fadd(st.sum, value),
     count |-> st.count + 1]

\* RollingMeanState::maintain_window: pop the front while the buffer is longer
\* than window_size.
RECURSIVE maintain_window(_, _)
maintain_window(st, window_size) ==
    IF Len(st.buffer) > window_size
    THEN maintain_window([buffer |-> Tail(st.buffer),
                          sum |-> fsub(st.sum, Head(st.buffer)),
                          count |-> st.count - 1], window_size)
    ELSE st

\* RollingMeanState::current_mean: sum / count kept as the fraction num / den
\* when sum is finite, the infinity inf (1 or -1) when sum is infinite, NaN for
\* an empty state or a NaN sum.
current_mean(st) ==
    IF st.count > 0 /\ st.sum.k = "fin"
    THEN [nan |-> FALSE, inf |-> 0, num |-> st.sum.v, den |-> st.count]
    ELSE IF st.count > 0 /\ st.sum.k = "inf"
    THEN [nan |-> FALSE, inf |-> st.sum.v, num |-> 0, den |-> 1]
    ELSE [nan |-> TRUE, inf |-> 0, num |-> 0, den |-> 1]

Min(a, b) == IF a < b THEN a ELSE b
SaturatingSub(a, b) == IF a > b THEN a - b ELSE 0

\* The for loop of evaluate over i in from..(to - 1), rows counted from 0: a
\* row before range.start is skipped, a valid value is added, and the window
\* is trimmed after every row.
RECURSIVE evaluate_loop(_, _, _, _, _, _)
evaluate_loop(st, values, window_size, rstart, from, to) ==
    IF from >= to THEN st
    ELSE IF from < rstart
         THEN evaluate_loop(st, values, window_size, rstart, from + 1, to)
         ELSE LET added == IF values[from + 1].valid
                           THEN add_value(st, values[from + 1].v)
                           ELSE st
              IN  evaluate_loop(maintain_window(added, window_size), values,
                                window_size, rstart, from + 1, to)

\* RollingMeanEvaluator::evaluate(values, range): the evaluator it leaves and
\* the mean it returns.  The state carries over from the call before.
evaluate(ev, values, range) ==
    LET window_start == SaturatingSub(range.start, ev.window_size - 1)
        window_end == Min(range.end, Len(values))
        st == evaluate_loop(ev.state, values, ev.window_size, range.start,
                            window_start, window_end)
    IN  [ev |-> [ev EXCEPT !.state = st], mean |-> current_mean(st)]

\* The frame of row r (counted from 0) under ROWS BETWEEN p PRECEDING AND
\* CURRENT ROW, as the half-open range the query engine passes to evaluate.
Frame(r, p) == [start |-> SaturatingSub(r, p), end |-> r + 1]

\* Calls made on one RollingMeanState, and the largest window_size passed to
\* maintain_window.
MaxOps == 4
MaxWindow == 2

\* The values passed to add_value.
StateValue == {F(1), F(2), PosInf}

\* A RollingMeanState nothing was called on: st is the state, op and w the
\* call made last and its window_size, n the calls so far, popped whether the
\* last call removed a value, finite whether every value added was finite.
RmsIdle ==
    [st |-> RollingMeanStateNew, op |-> "new", w |-> 0, n |-> 0,
     popped |-> FALSE, finite |-> TRUE]

\* ------------------------------------------ the mutex around TimeoutState

\* Threads inside Target::call at the same time; caller c's call may spawn
\* repeat task c.
MaxCallers == 2

\* Who holds timeout.state's mutex: nobody, caller c or repeat task t.
Free == <<>>
Caller(c) == <<"call", c>>
Task(t) == <<"task", t>>

\* A lock that never waits.
can_lock_Always(holder) == TRUE

\* Mutex::lock returns once nobody holds the mutex (lines 66, 114, 134, 150, 172).
can_lock(holder) == holder = Free

\* A thread that has not entered Target::call, and a task not yet spawned.
\* While a thread is between a lock and the matching release, snap is the
\* TimeoutState it found at the lock, disp whether it has called call_target
\* and sc the should_call it computed.
CallerIdle ==
    [pc |-> "start", ev |-> "none", snap |-> TimeoutStateDefault, disp |-> FALSE]
TaskIdle ==
    [pc |-> "unspawned", cur |-> "none", iter |-> 0, snap |-> TimeoutStateDefault,
     sc |-> FALSE]

\* S is the TimeoutState, holder the owner of its mutex, inflight whether a
\* transport task call_target spawned has not finished, ticks the lookups made.
\* atomic says that every critical section released so far left what its
\* operation, run in one piece on the TimeoutState found at the lock, leaves.
MxIdle ==
    [S |-> TimeoutStateDefault, holder |-> Free, retry |-> RetryDefault,
     checked |-> FALSE, callers |-> [c \in 1..MaxCallers |-> CallerIdle],
     tasks |-> [t \in 1..MaxCallers |-> TaskIdle], inflight |-> FALSE, ticks |-> 0,
     atomic |-> TRUE]

\* The statements of Target::call between the lock and the return, by line.
CallCritical ==
    {"l68", "l72", "l75", "l78", "l79", "l80", "l85", "l86", "l88", "l89", "l92",
     "l96", "l99"}

\* The statements of the repeat task that run with a guard alive.
TaskCritical == {"l116", "l124", "reset_write", "reset_drop"}

\* One statement of Target::call by caller c, after the lock was taken.
call_step(m, c) ==
    LET x == m.callers[c]
        at(pc) == [m EXCEPT !.callers[c].pc = pc]
    IN  CASE x.pc = "l68" ->
               [m EXCEPT !.S.alert_state = x.ev,
                         !.callers[c].pc = IF x.ev = "Triggered" THEN "l72" ELSE "l85"]
          [] x.pc = "l72" -> IF ~m.S.timed_out THEN at("l75") ELSE at("l99")
          [] x.pc = "l75" ->
               [m EXCEPT !.inflight = TRUE, !.callers[c].disp = TRUE,
                         !.callers[c].pc = "l78"]
          [] x.pc = "l78" -> [m EXCEPT !.S.timed_out = TRUE, !.callers[c].pc = "l79"]
          [] x.pc = "l79" ->
               [m EXCEPT !.S.awaiting_resolve = TRUE, !.callers[c].pc = "l80"]
          [] x.pc = "l80" ->
               [m EXCEPT !.holder = Free,
                         !.atomic = @ /\ [state |-> m.S, dispatch |-> x.disp,
                                          spawn |-> TRUE] = call(x.snap, x.ev),
                         !.callers[c] = [CallerIdle EXCEPT !.pc = "l81"]]
          [] x.pc = "l81" ->
               [m EXCEPT !.tasks[c].pc = "loop", !.callers[c].pc = "done"]
          [] x.pc = "l85" -> [m EXCEPT !.S.alert_state = x.ev, !.callers[c].pc = "l86"]
          [] x.pc = "l86" -> IF m.S.timed_out THEN at("l88") ELSE at("l96")
          [] x.pc = "l88" -> IF m.S.awaiting_resolve THEN at("l89") ELSE at("l92")
          [] x.pc = "l89" ->
               [m EXCEPT !.S.awaiting_resolve = FALSE, !.callers[c].pc = "l96"]
          [] x.pc = "l96" ->
               [m EXCEPT !.inflight = TRUE, !.callers[c].disp = TRUE,
                         !.callers[c].pc = "l99"]
          [] x.pc \in {"l92", "l99"} ->
               [m EXCEPT !.holder = Free,
                         !.atomic = @ /\ [state |-> m.S, dispatch |-> x.disp,
                                          spawn |-> FALSE] = call(x.snap, x.ev),
                         !.callers[c] = [CallerIdle EXCEPT !.pc = "done"]]

\* One statement of repeat task t between a lock and the matching release.
task_step(m, t) ==
    LET x == m.tasks[t] IN
    CASE x.pc = "l116" ->
           IF x.cur = "Triggered"
           THEN [m EXCEPT !.S.awaiting_resolve = TRUE, !.tasks[t].sc = TRUE,
                          !.tasks[t].pc = "l124"]
           ELSE [m EXCEPT !.S.timed_out = FALSE, !.tasks[t].sc = FALSE,
                          !.tasks[t].pc = "l124"]
      [] x.pc = "l124" ->
           [m EXCEPT !.holder = Free,
                     !.atomic = @ /\ [state |-> m.S, should_call |-> x.sc]
                                        = sleep_and_check_if_call(x.snap, x.cur),
                     !.tasks[t].snap = TimeoutStateDefault, !.tasks[t].cur = "none",
                     !.tasks[t].pc = "l141"]
      [] x.pc = "reset_write" ->
           [m EXCEPT !.S = TimeoutStateDefault, !.tasks[t].pc = "reset_drop"]
      [] x.pc = "reset_drop" ->
           [m EXCEPT !.holder = Free,
                     !.atomic = @ /\ m.S = reset_state(x.snap),
                     !.tasks[t] = [TaskIdle EXCEPT !.pc = "done"]]

\* No query is running.
RollIdle ==
    [stage |-> "idle", values |-> <<>>, preceding |-> 0, row |-> 0,
     ev |-> RollingMeanEvaluatorNew(DefaultWindowSize), out |-> <<>>]

\* ------------------------------------------------------------------ Init

Init ==
    /\ state = TimeoutStateDefault
    /\ times \in Retry
    /\ checked \in BOOLEAN
    /\ tasks = <<>>
    /\ spawning = <<>>
    /\ sent = <<>>
    /\ win = NoWin
    /\ last = [op |-> "init", arg |-> "none", pre |-> TimeoutStateDefault]
    /\ calls = <<>>
    /\ ncalls = 0
    /\ nticks = 0
    /\ failed = FALSE
    /\ parse = ParseIdle
    /\ sink = SinkIdle
    /\ roll = RollIdle
    /\ rms = RmsIdle
    /\ mx = MxIdle

\* --------------------------------------------------------------- actions

\* Target::call(context), context.alert_info.alert_state = ev, from lock() to
\* the release of the guard: drop(state) on the path that spawns, the return
\* otherwise.  call_target runs with the guard alive.  On the spawning path
\* the thread is then between drop(state) and spawn_timeout_task.
TargetCall(ev) ==
    /\ ncalls < MaxCalls
    /\ LET r == call(state, ev) IN
        /\ state' = r.state
        /\ sent' = IF r.dispatch THEN call_target(sent, "call", ev, TRUE) ELSE sent
        /\ spawning' = IF r.spawn THEN Append(spawning, ev) ELSE spawning
        /\ win' = WinAfter(state, r.state,
                           IF ev = "Triggered" /\ r.dispatch THEN 1 ELSE 0,
                           IF ev # "Triggered" /\ r.dispatch THEN 1 ELSE 0,
                           IF ev # "Triggered" THEN 1 ELSE 0,
                           r.spawn)
    /\ last' = Did("call", ev)
    /\ calls' = Append(calls, ev)
    /\ ncalls' = ncalls + 1
    /\ UNCHANGED <<times, checked, tasks, nticks, failed, aux>>

\* self.spawn_timeout_task(timeout, context.clone()) of the k-th thread that
\* dropped the guard and has not spawned yet: the repeat task is created with
\* the context of that call.
TargetSpawn(k) ==
    /\ k \in DOMAIN spawning
    /\ spawning' = SubSeq(spawning, 1, k - 1) \o SubSeq(spawning, k + 1, Len(spawning))
    /\ tasks' = Append(tasks, spawn_timeout_task(times, spawning[k]))
    /\ last' = Did("spawn", spawning[k])
    /\ UNCHANGED <<state, times, checked, sent, win, calls, ncalls, nticks, failed, aux>>

\* First poll of a task of a Finite(0) target in a build with overflow checks:
\* `times - 1` panics and the task ends without touching the TimeoutState.
TaskPanic(i) ==
    /\ tasks[i].pc = "loop"
    /\ tasks[i].iter = 0
    /\ Underflows(tasks[i].retry)
    /\ checked
    /\ tasks' = [tasks EXCEPT ![i].pc = "panicked"]
    /\ last' = Did("panic", "none")
    /\ UNCHANGED <<state, times, checked, spawning, sent, win, calls, ncalls, nticks,
                   failed, aux>>

\* Loop head with an iteration left: ALERTS.get_state(alert_id).await answers
\* ans.  Ok(state) is kept as current_state and the task goes to sleep; Err
\* resets the TimeoutState to its default and returns.  The lookup itself
\* touches nothing of the target, so the step is taken at the moment of the
\* reset's lock().
Lookup(i, ans) ==
    /\ tasks[i].pc = "loop"
    /\ LoopContinues(tasks[i])
    /\ ~(Underflows(tasks[i].retry) /\ checked)
    /\ IF ans = "NotFound"
       THEN /\ state' = reset_state(state)
            /\ tasks' = [tasks EXCEPT ![i].pc = "done", ![i].obs = Append(@, ans)]
            /\ win' = WinAfter(state, state', 0, 0, 0, FALSE)
       ELSE /\ tasks' = [tasks EXCEPT ![i].pc = "sleep", ![i].cur = ans,
                                      ![i].obs = Append(@, ans)]
            /\ UNCHANGED <<state, win>>
    /\ last' = Did("query", ans)
    /\ nticks' = nticks + 1
    /\ UNCHANGED <<times, checked, spawning, sent, calls, ncalls, failed, aux>>

\* A lookup within the MaxTicks lookups of one behaviour.
TaskQuery(i, ans) ==
    /\ nticks < MaxTicks
    /\ Lookup(i, ans)

\* The sleep of sleep_and_check_if_call elapses: the flags are updated under
\* the lock and the lock is released.  With should_call the task is then
\* before its call_target; otherwise it is back at the loop head.
TaskWake(i) ==
    /\ tasks[i].pc = "sleep"
    /\ LET r == sleep_and_check_if_call(state, tasks[i].cur) IN
        /\ state' = r.state
        /\ win' = WinAfter(state, r.state, 0, 0, 0, r.should_call)
        /\ tasks' = IF r.should_call
                    THEN [tasks EXCEPT ![i].pc = "send", ![i].cur = "none"]
                    ELSE [tasks EXCEPT ![i].pc = "loop", ![i].iter = @ + 1,
                                       ![i].cur = "none"]
    /\ last' = Did("wake", tasks[i].cur)
    /\ UNCHANGED <<times, checked, spawning, sent, calls, ncalls, nticks, failed, aux>>

\* `if should_call { call_target(target.clone(), alert_context.clone()) }`: the
\* task re-sends the context it captured, with no guard alive, and is back at
\* the loop head.
TaskSend(i) ==
    /\ tasks[i].pc = "send"
    /\ sent' = call_target(sent, "sched", tasks[i].ctx, FALSE)
    /\ tasks' = [tasks EXCEPT ![i].pc = "loop", ![i].iter = @ + 1]
    /\ last' = Did("send", tasks[i].ctx)
    /\ UNCHANGED <<state, times, checked, spawning, win, calls, ncalls, nticks,
                   failed, aux>>

\* The Finite loop has run its times - 1 iterations: the statement after the
\* match resets the TimeoutState to its default and the task ends.
TaskExit(i) ==
    /\ tasks[i].pc = "loop"
    /\ ~LoopContinues(tasks[i])
    /\ state' = reset_state(state)
    /\ win' = WinAfter(state, state', 0, 0, 0, FALSE)
    /\ tasks' = [tasks EXCEPT ![i].pc = "done"]
    /\ last' = Did("exit", "none")
    /\ UNCHANGED <<times, checked, spawning, sent, calls, ncalls, nticks, failed, aux>>

Next ==
    \/ \E ev \in AlertState : TargetCall(ev)
    \/ \E k \in DOMAIN spawning : TargetSpawn(k)
    \/ \E i \in DOMAIN tasks : TaskPanic(i)
    \/ \E i \in DOMAIN tasks : \E ans \in RegistryAnswer : TaskQuery(i, ans)
    \/ \E i \in DOMAIN tasks : TaskWake(i)
    \/ \E i \in DOMAIN tasks : TaskSend(i)
    \/ \E i \in DOMAIN tasks : TaskExit(i)

Spec == Init /\ [][Next]_vars

\* ------------------------------------------------ tasks that are scheduled

\* A Finite target; Finite(0) in a build with overflow checks only, where the
\* task ends at once (without them its loop has usize::MAX iterations).
InitFair ==
    /\ Init
    /\ times.kind = "Finite"
    /\ checked \/ ~Underflows(times)

\* Any step of repeat task i.  The lookups are not limited: every task of a
\* Finite target makes fewer than MaxTimes of them.
TaskStep(i) ==
    IF i \in DOMAIN tasks
    THEN \/ TaskPanic(i)
         \/ \E ans \in RegistryAnswer : Lookup(i, ans)
         \/ TaskWake(i)
         \/ TaskSend(i)
         \/ TaskExit(i)
    ELSE FALSE

NextFair ==
    \/ \E ev \in AlertState : TargetCall(ev)
    \/ \E k \in DOMAIN spawning : TargetSpawn(k)
    \/ \E i \in DOMAIN tasks : TaskPanic(i)
    \/ \E i \in DOMAIN tasks : \E ans \in RegistryAnswer : Lookup(i, ans)
    \/ \E i \in DOMAIN tasks : TaskWake(i)
    \/ \E i \in DOMAIN tasks : TaskSend(i)
    \/ \E i \in DOMAIN tasks : TaskExit(i)

\* A thread inside Target::call runs on to its spawn_timeout_task; the runtime
\* polls every spawned task that can run, every sleep elapses and the registry
\* always answers: each task keeps taking its steps.
SpecFair ==
    /\ InitFair
    /\ [][NextFair]_vars
    /\ WF_vars(\E k \in DOMAIN spawning : TargetSpawn(k))
    /\ \A i \in 1..MaxCalls : WF_vars(TaskStep(i))

\* ------------------------------------------------ transports that fail

\* What the spawned transport task does to the TimeoutState when its request
\* fails: `if let Err(e) = ..send().await { error!(..) }` only logs.
transport_error_Reset(S) == TimeoutStateDefault

transport_error(S) == S

\* A dispatched transport call ends with an error, for the first time.  One
\* that never completes is a dispatched call for which this step never
\* happens.  `last` keeps naming the notifier's last operation.
TransportFails ==
    /\ ~failed
    /\ Len(sent) > 0
    /\ failed' = TRUE
    /\ state' = transport_error(state)
    /\ UNCHANGED <<times, checked, tasks, spawning, sent, win, last, calls, ncalls,
                   nticks, aux>>

\* The step stays within MaxSteps calls and lookups.
InBudget == ncalls' + nticks' <= MaxSteps

NextIO ==
    \/ \E ev \in AlertState : TargetCall(ev) /\ InBudget
    \/ \E k \in DOMAIN spawning : TargetSpawn(k)
    \/ \E i \in DOMAIN tasks : TaskPanic(i)
    \/ \E i \in DOMAIN tasks : \E ans \in RegistryAnswer : TaskQuery(i, ans) /\ InBudget
    \/ \E i \in DOMAIN tasks : TaskWake(i)
    \/ \E i \in DOMAIN tasks : TaskSend(i)
    \/ \E i \in DOMAIN tasks : TaskExit(i)
    \/ TransportFails

\* The notifier with transports that may fail.
SpecIO == Init /\ [][NextIO]_vars

\* --------------------------------------- a target is parsed and called

\* The notifier at rest, for the parts that run without it.
NotifierIdle ==
    /\ state = TimeoutStateDefault
    /\ times = RetryDefault
    /\ checked = FALSE
    /\ tasks = <<>>
    /\ spawning = <<>>
    /\ sent = <<>>
    /\ win = NoWin
    /\ last = [op |-> "init", arg |-> "none", pre |-> TimeoutStateDefault]
    /\ calls = <<>>
    /\ ncalls = 0
    /\ nticks = 0
    /\ failed = FALSE

InitTarget ==
    /\ NotifierIdle
    /\ parse \in {[ParseIdle EXCEPT !.stage = "doc", !.doc = d] : d \in JsonTarget}
    /\ sink = SinkIdle
    /\ roll = RollIdle
    /\ rms = RmsIdle
    /\ mx = MxIdle

\* serde_json::from_*::<Target>(doc)
TargetParse ==
    /\ parse.stage = "doc"
    /\ parse' = [parse EXCEPT !.stage = "parsed", !.got = deserialize(parse.doc)]
    /\ UNCHANGED <<notifier, failed, sink, roll, rms, mx>>

\* serde_json::to_*(&target) of the parsed target
TargetSerialize ==
    /\ parse.stage = "parsed"
    /\ parse.got.ok
    /\ parse' = [parse EXCEPT !.stage = "serialized", !.out = serialize(parse.got.val)]
    /\ UNCHANGED <<notifier, failed, sink, roll, rms, mx>>

\* The serialized target is parsed again.
TargetReparse ==
    /\ parse.stage = "serialized"
    /\ parse' = [parse EXCEPT !.stage = "reparsed", !.again = deserialize(parse.out)]
    /\ UNCHANGED <<notifier, failed, sink, roll, rms, mx>>

\* target.call(&context) of the transport task, on the parsed target.
SinkCall(ctx, now) ==
    /\ parse.stage = "parsed"
    /\ parse.got.ok
    /\ sink.stage = "idle"
    /\ sink' = [stage |-> "sent", ctx |-> ctx, now |-> now,
                body |-> target_call(parse.got.val.target.type, ctx, now)]
    /\ UNCHANGED <<notifier, failed, parse, roll, rms, mx>>

NextTarget ==
    \/ TargetParse
    \/ TargetSerialize
    \/ TargetReparse
    \/ \E ctx \in Context : \E now \in Clock : SinkCall(ctx, now)

SpecTarget == InitTarget /\ [][NextTarget]_vars

\* ------------------------------------------ rolling_mean over a partition

InitRoll ==
    /\ NotifierIdle
    /\ parse = ParseIdle
    /\ sink = SinkIdle
    /\ roll \in {[RollIdle EXCEPT !.stage = "run", !.values = v, !.preceding = p] :
                    v \in Column, p \in 0..MaxPreceding}
    /\ rms = RmsIdle
    /\ mx = MxIdle

\* The query engine asks for the next row of the partition: evaluate is called
\* with the row's frame on the partition's one evaluator.
RollEvaluate ==
    /\ roll.stage = "run"
    /\ roll.row < Len(roll.values)
    /\ LET r == evaluate(roll.ev, roll.values, Frame(roll.row, roll.preceding)) IN
         roll' = [roll EXCEPT !.ev = r.ev, !.out = Append(@, r.mean), !.row = @ + 1]
    /\ UNCHANGED <<notifier, failed, parse, sink, rms, mx>>

NextRoll == RollEvaluate

SpecRoll == InitRoll /\ [][NextRoll]_vars

\* ------------------------------------- one RollingMeanState, call by call

InitState ==
    /\ NotifierIdle
    /\ parse = ParseIdle
    /\ sink = SinkIdle
    /\ roll = RollIdle
    /\ rms = RmsIdle
    /\ mx = MxIdle

\* state.add_value(value)
StateAdd(value) ==
    /\ rms.n < MaxOps
    /\ rms' = [st |-> add_value(rms.st, value), op |-> "add_value", w |-> rms.w,
               n |-> rms.n + 1, popped |-> FALSE,
               finite |-> rms.finite /\ value.k = "fin"]
    /\ UNCHANGED <<notifier, failed, parse, sink, roll, mx>>

\* state.maintain_window(window_size)
StateMaintain(window_size) ==
    /\ rms.n < MaxOps
    /\ rms' = [st |-> maintain_window(rms.st, window_size), op |-> "maintain_window",
               w |-> window_size, n |-> rms.n + 1,
               popped |-> Len(rms.st.buffer) > window_size,
               finite |-> rms.finite]
    /\ UNCHANGED <<notifier, failed, parse, sink, roll, mx>>

NextState ==
    \/ \E value \in StateValue : StateAdd(value)
    \/ \E window_size \in 0..MaxWindow : StateMaintain(window_size)

SpecState == InitState /\ [][NextState]_vars

\* --------------------------- Target::call and the tasks, one statement a step

InitLock ==
    /\ NotifierIdle
    /\ parse = ParseIdle
    /\ sink = SinkIdle
    /\ roll = RollIdle
    /\ rms = RmsIdle
    /\ mx \in {[MxIdle EXCEPT !.retry = r, !.checked = b] : r \in Retry, b \in BOOLEAN}

Others == <<notifier, failed, parse, sink, roll, rms>>

\* Line 66 of a call with a context of alert_state ev: lock().
CallLock(c, ev) ==
    /\ mx.callers[c].pc = "start"
    /\ can_lock(mx.holder)
    /\ mx' = [mx EXCEPT !.holder = Caller(c), !.callers[c].pc = "l68",
                        !.callers[c].ev = ev, !.callers[c].snap = mx.S]
    /\ UNCHANGED Others

\* Lines 68 to 99, one statement.
CallRun(c) ==
    /\ mx.callers[c].pc \in CallCritical \cup {"l81"}
    /\ mx' = call_step(mx, c)
    /\ UNCHANGED Others

\* `times - 1` of a Finite(0) task with overflow checks.
LockTaskPanic(t) ==
    /\ mx.tasks[t].pc = "loop"
    /\ mx.tasks[t].iter = 0
    /\ Underflows(mx.retry)
    /\ mx.checked
    /\ mx' = [mx EXCEPT !.tasks[t].pc = "panicked"]
    /\ UNCHANGED Others

\* ALERTS.get_state(alert_id).await at the loop head answers ans.
LockTaskLookup(t, ans) ==
    /\ mx.tasks[t].pc = "loop"
    /\ LoopContinues([retry |-> mx.retry, iter |-> mx.tasks[t].iter])
    /\ ~(Underflows(mx.retry) /\ mx.checked)
    /\ mx.ticks < MaxTicks
    /\ mx' = [mx EXCEPT !.ticks = @ + 1,
                        !.tasks[t].cur = IF ans = "NotFound" THEN "none" ELSE ans,
                        !.tasks[t].pc = IF ans = "NotFound" THEN "reset" ELSE "sleep"]
    /\ UNCHANGED Others

\* tokio::time::sleep(timeout).await elapses (line 112).
LockTaskSleep(t) ==
    /\ mx.tasks[t].pc = "sleep"
    /\ mx' = [mx EXCEPT !.tasks[t].pc = "l114"]
    /\ UNCHANGED Others

\* The Finite loop is over: on to the reset of line 172.
LockTaskLoopEnd(t) ==
    /\ mx.tasks[t].pc = "loop"
    /\ ~LoopContinues([retry |-> mx.retry, iter |-> mx.tasks[t].iter])
    /\ mx' = [mx EXCEPT !.tasks[t].pc = "reset"]
    /\ UNCHANGED Others

\* lock() of line 114, or of the resets of lines 134, 150 and 172.
LockTaskLock(t) ==
    /\ mx.tasks[t].pc \in {"l114", "reset"}
    /\ can_lock(mx.holder)
    /\ mx' = [mx EXCEPT !.holder = Task(t), !.tasks[t].snap = mx.S,
                        !.tasks[t].pc = IF mx.tasks[t].pc = "l114" THEN "l116"
                                        ELSE "reset_write"]
    /\ UNCHANGED Others

\* A statement under the task's guard, or the drop of the guard.
LockTaskRun(t) ==
    /\ mx.tasks[t].pc \in TaskCritical
    /\ mx' = task_step(mx, t)
    /\ UNCHANGED Others

\* Lines 141 to 143: call_target when should_call, then the next iteration.
LockTaskSend(t) ==
    /\ mx.tasks[t].pc = "l141"
    /\ mx' = [mx EXCEPT !.inflight = @ \/ mx.tasks[t].sc,
                        !.tasks[t].iter = @ + 1, !.tasks[t].sc = FALSE,
                        !.tasks[t].pc = "loop"]
    /\ UNCHANGED Others

\* The transport tasks spawned by call_target run target.call(&context).await
\* to the end; they never touch the TimeoutState.
TransportRun ==
    /\ mx.inflight
    /\ mx' = [mx EXCEPT !.inflight = FALSE]
    /\ UNCHANGED Others

NextLock ==
    \/ \E c \in 1..MaxCallers : \E ev \in AlertState : CallLock(c, ev)
    \/ \E c \in 1..MaxCallers : CallRun(c)
    \/ \E t \in 1..MaxCallers : LockTaskPanic(t)
    \/ \E t \in 1..MaxCallers : \E ans \in RegistryAnswer : LockTaskLookup(t, ans)
    \/ \E t \in 1..MaxCallers : LockTaskSleep(t)
    \/ \E t \in 1..MaxCallers : LockTaskLoopEnd(t)
    \/ \E t \in 1..MaxCallers : LockTaskLock(t)
    \/ \E t \in 1..MaxCallers : LockTaskRun(t)
    \/ \E t \in 1..MaxCallers : LockTaskSend(t)
    \/ TransportRun

SpecLock == InitLock /\ [][NextLock]_vars

TypeOK ==
    /\ state \in [alert_state : AlertState, timed_out : BOOLEAN, awaiting_resolve : BOOLEAN]
    /\ times \in Retry
    /\ checked \in BOOLEAN
    /\ \A i \in DOMAIN tasks :
          /\ tasks[i].pc \in {"loop", "sleep", "send", "done", "panicked"}
          /\ tasks[i].retry = times
          /\ tasks[i].cur \in AlertState \cup {"none"}
    /\ \A k \in DOMAIN sent : sent[k].by \in {"call", "sched"} /\ sent[k].st \in AlertState
    /\ calls \in Seq(AlertState) /\ Len(calls) = ncalls
    /\ ncalls \in 0..MaxCalls
    /\ spawning \in Seq(AlertState) /\ Len(spawning) <= MaxCalls
    /\ nticks \in 0..MaxTicks
    /\ failed \in BOOLEAN
    /\ parse.stage \in {"idle", "doc", "parsed", "serialized", "reparsed"}
    /\ sink.stage \in {"idle", "sent"}
    /\ roll.stage \in {"idle", "run"}
    /\ roll.row \in 0..MaxRows
    /\ rms.op \in {"new", "add_value", "maintain_window"}
    /\ rms.n \in 0..MaxOps

\* ---------------------------------------------------------------- claims

NonFiring == {"Resolved", "Silenced"}

\* The step is a Target::call whose context carries alert_state ev.
IsCall(ev) == ncalls' = ncalls + 1 /\ last'.op = "call" /\ last'.arg = ev

\* The step made exactly one transport dispatch, by Target::call, of event ev.
DispatchedOne(ev) ==
    /\ Len(sent') = Len(sent) + 1
    /\ SubSeq(sent', 1, Len(sent)) = sent
    /\ sent'[Len(sent')].by = "call"
    /\ sent'[Len(sent')].st = ev

\* The step left timed_out and awaiting_resolve as they were.
FlagsUnchanged ==
    /\ state'.timed_out = state.timed_out
    /\ state'.awaiting_resolve = state.awaiting_resolve

\* C1: in every reachable state, awaiting_resolve = true implies timed_out =
\* true.  The repeat task's wake-up on a non-firing registry state clears
\* timed_out and leaves awaiting_resolve set, so this is violated.
C1_AwaitingImpliesTimedOut == state.awaiting_resolve => state.timed_out

\* C2: at most one repeat task spawned by spawn_timeout_task is live for the
\* target at any time.  A task outlives the window it was spawned for, so a
\* later Triggered call spawns a second one: violated.
C2_AtMostOneLiveTask == Cardinality(LiveTasks) <= 1

\* C3 as stated: between timed_out turning true and its next return to false,
\* Target::call forwards at most one Resolved/Silenced event.  A wake-up that
\* observes Triggered re-arms awaiting_resolve inside the window: violated.
C3_AtMostOneForwardPerWindow == win.fwd <= 1

\* C3 amended: between two consecutive writes of awaiting_resolve = true (the
\* Target::call that opens the window, or a wake-up of the repeat task that
\* observed Triggered), Target::call forwards at most one Resolved/Silenced
\* event while timed_out is true.
C3_AtMostOneForwardPerArming == win.arm <= 1

\* C3 witness: inside a window a non-firing event was forwarded and the next
\* one, arriving with awaiting_resolve already cleared, was dropped.
C3_Witness ==
    /\ last.op = "call" /\ last.arg \in NonFiring
    /\ last.pre.timed_out /\ ~last.pre.awaiting_resolve
    /\ win.arm = 1 /\ win.seen >= 2

\* C4: Target::call dispatches at most one Triggered notification between
\* timed_out turning true and its next return to false.
C4_AtMostOneTriggeredPerWindow == win.trig <= 1

\* C4 witness: a Triggered event arrived inside a window that Target::call had
\* opened with a dispatch.
C4_Witness ==
    /\ last.op = "call" /\ last.arg = "Triggered" /\ last.pre.timed_out
    /\ win.trig = 1

\* C5: inside a timed_out window the first Resolved/Silenced event passed to
\* Target::call is forwarded to the transport.
C5_FirstNonFiringForwarded ==
    [][\A ev \in NonFiring :
          (IsCall(ev) /\ state.timed_out /\ win.seen = 0) => DispatchedOne(ev)]_vars

\* C5 witness: the first non-firing event of a window has just been handled,
\* after the repeat task had already woken up in that window.
C5_Witness ==
    /\ last.op = "call" /\ last.arg \in NonFiring /\ last.pre.timed_out
    /\ win.seen = 1 /\ win.fwd = 1
    /\ \E i \in DOMAIN tasks : tasks[i].iter >= 1

\* The step is the spawn_timeout_task of a thread inside Target::call.
IsSpawn == Len(spawning') = Len(spawning) - 1

\* The step created exactly one repeat task, live, and touched no other.
SpawnedOne ==
    /\ Len(tasks') = Len(tasks) + 1
    /\ SubSeq(tasks', 1, Len(tasks)) = tasks
    /\ Live(tasks'[Len(tasks')])

\* C6: Target::call(Triggered) with timed_out = false makes exactly one
\* dispatch, leaves timed_out = true and awaiting_resolve = true, and spawns
\* exactly one repeat task: having dropped the guard it goes on to one
\* spawn_timeout_task, which creates one task.
C6_TriggeredOnIdle ==
    [][/\ (IsCall("Triggered") /\ ~state.timed_out) =>
            /\ DispatchedOne("Triggered")
            /\ state'.timed_out /\ state'.awaiting_resolve
            /\ spawning' = Append(spawning, "Triggered")
            /\ tasks' = tasks
       /\ IsSpawn => (SpawnedOne /\ state' = state /\ sent' = sent)]_vars

\* C6 witness: a Triggered call landed on a target with timed_out false and
\* its spawn_timeout_task has just created the task.
C6_Witness ==
    /\ last.op = "spawn" /\ spawning = <<>>
    /\ calls = <<"Triggered">>
    /\ state.timed_out /\ Len(sent) >= 1 /\ Len(tasks) = 1

\* C7: Target::call(Triggered) with timed_out = true makes no dispatch, spawns
\* no task and leaves timed_out and awaiting_resolve unchanged.
C7_TriggeredInWindow ==
    [][(IsCall("Triggered") /\ state.timed_out) =>
          (sent' = sent /\ tasks' = tasks /\ spawning' = spawning
              /\ FlagsUnchanged)]_vars

\* C7 witness: a Triggered call has just landed on a target with timed_out true.
C7_Witness ==
    /\ last.op = "call" /\ last.arg = "Triggered" /\ last.pre.timed_out
    /\ state.timed_out

\* C8: Target::call(Resolved|Silenced) with timed_out = true and
\* awaiting_resolve = true clears awaiting_resolve, leaves timed_out true and
\* makes exactly one dispatch of that event.
C8_NonFiringAwaited ==
    [][\A ev \in NonFiring :
          (IsCall(ev) /\ state.timed_out /\ state.awaiting_resolve) =>
             /\ ~state'.awaiting_resolve
             /\ state'.timed_out
             /\ DispatchedOne(ev)
             /\ tasks' = tasks /\ spawning' = spawning]_vars

\* C8 witness: a non-firing call has just landed on a target with both flags set.
C8_Witness ==
    /\ last.op = "call" /\ last.arg \in NonFiring
    /\ last.pre.timed_out /\ last.pre.awaiting_resolve
    /\ ~state.awaiting_resolve

\* C9: Target::call(Resolved|Silenced) with timed_out = true and
\* awaiting_resolve = false makes no dispatch and leaves both flags unchanged.
C9_NonFiringDropped ==
    [][\A ev \in NonFiring :
          (IsCall(ev) /\ state.timed_out /\ ~state.awaiting_resolve) =>
             (sent' = sent /\ tasks' = tasks /\ spawning' = spawning
                 /\ FlagsUnchanged)]_vars

\* C9 witness: a non-firing call has just landed on a target with timed_out
\* true and awaiting_resolve false.
C9_Witness ==
    /\ last.op = "call" /\ last.arg \in NonFiring
    /\ last.pre.timed_out /\ ~last.pre.awaiting_resolve
    /\ state.timed_out

\* C10: Target::call(Resolved|Silenced) with timed_out = false makes exactly
\* one dispatch of that event, spawns no task and leaves both flags unchanged.
C10_NonFiringOnIdle ==
    [][\A ev \in NonFiring :
          (IsCall(ev) /\ ~state.timed_out) =>
             (DispatchedOne(ev) /\ tasks' = tasks /\ spawning' = spawning
                 /\ FlagsUnchanged)]_vars

\* C10 witness: a non-firing call has just landed on a target with timed_out
\* false, after a window had been opened and closed.
C10_Witness ==
    /\ last.op = "call" /\ last.arg \in NonFiring /\ ~last.pre.timed_out
    /\ Len(tasks) >= 1 /\ Len(sent) >= 2

\* Number of transport dispatches made by Target::call / by repeat tasks.
CallDispatches == Cardinality({k \in DOMAIN sent : sent[k].by = "call"})
SchedDispatches == Cardinality({k \in DOMAIN sent : sent[k].by = "sched"})

\* The TimeoutState holds the values of TimeoutState::default().
IsDefault(S) ==
    /\ S.timed_out = FALSE
    /\ S.awaiting_resolve = FALSE
    /\ S.alert_state = DefaultAlertState

\* Task i got Err from the registry.
LookupFailed(i) == \E k \in DOMAIN tasks[i].obs : tasks[i].obs[k] = "NotFound"

\* C11: at the moment a repeat task exits, after finite-retry exhaustion or
\* after a registry lookup failure, the TimeoutState equals its default.
C11_ExitLeavesDefault ==
    (last.op = "exit" \/ (last.op = "query" /\ last.arg = "NotFound"))
        => IsDefault(state)

\* C11 witness: a task has just exited after its last iteration, from a state
\* in which both flags were set.
C11_Witness ==
    /\ last.op = "exit"
    /\ last.pre.timed_out /\ last.pre.awaiting_resolve
    /\ last.pre.alert_state = "Triggered"
    /\ \E i \in DOMAIN tasks : tasks[i].pc = "done" /\ tasks[i].iter >= 1

\* C12 as stated: a task spawned with Finite(n) performs exactly n - 1
\* sleep-and-check iterations before it resets and exits, whatever the registry
\* returns.  A failed lookup ends the task at once: violated.
C12_FiniteRunsAllIterations ==
    \A i \in DOMAIN tasks :
        (tasks[i].pc = "done" /\ tasks[i].retry.kind = "Finite")
            => tasks[i].iter = tasks[i].retry.n - 1

\* C12 amended: a task spawned with Finite(n) whose lookups all succeed
\* performs exactly n - 1 sleep-and-check iterations before it resets and
\* exits, whichever AlertState the registry returned; a failed lookup makes it
\* reset and exit at once, before the iterations that were left.
C12_FiniteExhaustion ==
    \A i \in DOMAIN tasks :
        (tasks[i].pc = "done" /\ tasks[i].retry.kind = "Finite") =>
            IF LookupFailed(i)
            THEN /\ tasks[i].iter = Len(tasks[i].obs) - 1
                 /\ tasks[i].obs[Len(tasks[i].obs)] = "NotFound"
                 /\ (Underflows(tasks[i].retry) \/ tasks[i].iter < tasks[i].retry.n - 1)
            ELSE /\ tasks[i].iter = tasks[i].retry.n - 1
                 /\ Len(tasks[i].obs) = tasks[i].retry.n - 1

\* C12 witness: a Finite(3) task has exited after two iterations, the first of
\* which observed a non-firing state.
C12_Witness ==
    \E i \in DOMAIN tasks :
        /\ tasks[i].pc = "done" /\ tasks[i].retry = Finite(3)
        /\ tasks[i].iter = 2
        /\ tasks[i].obs[1] \in NonFiring

\* C13: when ALERTS.get_state fails, the task (Finite or Infinite) resets the
\* TimeoutState to default, makes no further dispatch and exits; with
\* Retry::Infinite and a single Target::call(Triggered) whose first lookup
\* fails, the total number of dispatches is exactly 1.
C13_LookupFailure ==
    /\ [][\A i \in DOMAIN tasks :
            /\ (tasks[i].pc = "loop" /\ tasks'[i].pc # "loop"
                    /\ last'.op = "query" /\ last'.arg = "NotFound")
                  => (IsDefault(state') /\ sent' = sent /\ tasks'[i].pc = "done")
            /\ (tasks[i].pc = "done") => (tasks'[i] = tasks[i])]_vars
    /\ []((/\ times = Infinite
           /\ calls = <<"Triggered">>
           /\ Len(tasks) = 1
           /\ tasks[1].obs = <<"NotFound">>) => Len(sent) = 1)

\* C13 witness: Infinite policy, one Triggered call, the first lookup failed.
C13_Witness ==
    /\ times = Infinite
    /\ calls = <<"Triggered">>
    /\ Len(tasks) = 1
    /\ tasks[1].obs = <<"NotFound">> /\ tasks[1].pc = "done"
    /\ Len(sent) = 1

\* Every call so far carried Triggered, and there was at least one.
BurstOnly == ncalls >= 1 /\ \A k \in DOMAIN calls : calls[k] = "Triggered"

\* No repeat task has cleared timed_out: none has exited, and every wake-up so
\* far acted on a Triggered registry state.
WindowHeld ==
    \A i \in DOMAIN tasks :
        /\ tasks[i].pc # "done"
        /\ \A k \in 1..tasks[i].iter : tasks[i].obs[k] = "Triggered"

\* C14 as stated: from an idle target a burst of k >= 1 Triggered calls
\* produces exactly one dispatch from Target::call, for every retry policy and
\* every interleaving of the repeat task.  A task that clears timed_out inside
\* the burst (under Finite(1) without sleeping) lets the next call dispatch
\* again: violated.
C14_BurstOneDispatch == BurstOnly => CallDispatches = 1

\* C14 amended: a burst of k >= 1 Triggered calls on an idle target produces
\* exactly one dispatch from Target::call as long as no repeat task clears
\* timed_out during the burst; every call of the burst that finds timed_out =
\* false dispatches and spawns a task, so the dispatches from Target::call
\* equal the tasks spawned or about to be.
C14_BurstOnePerWindow ==
    BurstOnly =>
        /\ CallDispatches = Len(tasks) + Len(spawning)
        /\ WindowHeld => CallDispatches = 1

\* C14 witness: a burst of three Triggered calls, interleaved with a wake-up of
\* the repeat task, has produced one dispatch from Target::call.
C14_Witness ==
    /\ BurstOnly /\ ncalls = 3 /\ WindowHeld
    /\ CallDispatches = 1
    /\ \E i \in DOMAIN tasks : tasks[i].iter >= 1

\* Resolved notifications forwarded by Target::call.
ResolvedDispatches ==
    Cardinality({k \in DOMAIN sent : sent[k].by = "call" /\ sent[k].st = "Resolved"})

\* C15 as stated: after Target::call(Triggered) on an idle target, two
\* Target::call(Resolved) that both arrive while timed_out is still true
\* produce exactly one Resolved dispatch, whatever scheduler ticks occur
\* between them.  A wake-up on Triggered between them re-arms
\* awaiting_resolve: violated.
C15_SecondResolvedDropped ==
    (calls = <<"Triggered", "Resolved", "Resolved">> /\ win.seen = 2)
        => ResolvedDispatches = 1

\* C15 amended: the second Resolved is dropped provided no wake-up of the
\* repeat task that observed Triggered occurs between the two; after such a
\* wake-up the second Resolved is forwarded as well.  (win.arm = 1 says no
\* write of awaiting_resolve = true followed the first forward.)
C15_SecondResolvedUnlessRearmed ==
    [][(/\ IsCall("Resolved")
        /\ calls = <<"Triggered", "Resolved">>
        /\ state.timed_out /\ win.seen = 1)
          => /\ win.arm = 1 => (sent' = sent /\ FlagsUnchanged)
             /\ win.arm = 0 => DispatchedOne("Resolved")]_vars

\* C15 witness: Triggered, Resolved, Resolved inside one window, with a wake-up
\* of the repeat task before them; one Resolved was forwarded.
C15_Witness ==
    /\ calls = <<"Triggered", "Resolved", "Resolved">>
    /\ win.seen = 2 /\ win.fwd = 1
    /\ ResolvedDispatches = 1
    /\ Len(tasks) = 1 /\ tasks[1].iter >= 1

\* What the registry holds when the k-th interval of task t elapses.  The task
\* looks the state up before it sleeps, and its next lookup follows the wake-up
\* with no sleep in between: lookup k + 1 is the one made at that moment.  The
\* state at the end of the last interval of a Finite task is never looked up.
AtElapse(t, k) == t.obs[k + 1]

\* Scenario S1: Finite(3), one Triggered call and no other, the registry holds
\* Triggered when the first interval elapses (and Resolved when the second
\* does, which no lookup reads); the task has run to its end.
ScenarioS1 ==
    /\ times = Finite(3)
    /\ calls = <<"Triggered">>
    /\ Len(tasks) = 1
    /\ tasks[1].pc = "done"
    /\ Len(tasks[1].obs) = 2
    /\ AtElapse(tasks[1], 1) = "Triggered"

\* C16: in scenario S1 the total number of dispatches is exactly 2, and the
\* task makes no dispatch at the end of the second interval.  The task acts on
\* the state it looked up before each sleep, so with the registry at Triggered
\* from the start it re-sends at the end of both intervals: violated.
C16_ScenarioS1 ==
    ScenarioS1 => (Len(sent) = 2 /\ SchedDispatches = 1)

\* Scenario S2: Finite(3), Triggered then Resolved, the Resolved forwarded
\* before any re-send of the task, and the registry holds Resolved when the
\* first interval elapses; the task has run to its end.
ScenarioS2 ==
    /\ times = Finite(3)
    /\ calls = <<"Triggered", "Resolved">>
    /\ Len(tasks) = 1
    /\ tasks[1].pc = "done"
    /\ Len(tasks[1].obs) = 2
    /\ AtElapse(tasks[1], 1) = "Resolved"
    /\ Len(sent) >= 2 /\ sent[2].by = "call"

\* C17: in scenario S2 there are exactly 2 dispatches, one Triggered and one
\* Resolved, and none by the task.  The lookup made when the task starts can
\* still answer Triggered, and the wake-up one interval later acts on it:
\* violated.
C17_ScenarioS2 ==
    ScenarioS2 => (Len(sent) = 2 /\ SchedDispatches = 0)

\* Scenario S4 for Finite(n), n >= 1: one Triggered call, the registry answers
\* only Triggered.
ScenarioS4 ==
    /\ times.kind = "Finite" /\ times.n >= 1
    /\ calls = <<"Triggered">>
    /\ Len(tasks) = 1
    /\ \A k \in DOMAIN tasks[1].obs : tasks[1].obs[k] = "Triggered"

\* C18: in scenario S4 the task has made one re-send per completed iteration,
\* and when it has exited the total number of dispatches is exactly n and the
\* TimeoutState is its default.
C18_ScenarioS4 ==
    ScenarioS4 =>
        /\ Len(sent) = 1 + tasks[1].iter
        /\ tasks[1].pc = "done" => (Len(sent) = times.n /\ IsDefault(state))

\* C18 witness: scenario S4 with Finite(3) has run to the end: 3 dispatches.
C18_Witness ==
    /\ ScenarioS4 /\ times = Finite(3)
    /\ tasks[1].pc = "done"
    /\ Len(sent) = 3 /\ SchedDispatches = 2

\* C19: every dispatch made by a repeat task carries the context captured at
\* spawn time, whose alert_state is Triggered; a task never dispatches a
\* Resolved or Silenced notification.
C19_SchedulerSendsTriggered ==
    /\ \A i \in DOMAIN tasks : tasks[i].ctx = "Triggered"
    /\ \A k \in DOMAIN sent : sent[k].by = "sched" => sent[k].st = "Triggered"

\* C19 witness: a task re-sent its context right after Target::call forwarded
\* a Resolved event.
C19_Witness ==
    \E k \in DOMAIN sent :
        /\ k >= 3
        /\ sent[k].by = "sched"
        /\ sent[k - 1].by = "call" /\ sent[k - 1].st = "Resolved"

\* C20: a task with Retry::Infinite exits only when a registry lookup fails; a
\* wake-up on a non-firing state sets timed_out = false and the task is back at
\* the loop head with an iteration to run.
C20_InfiniteKeepsLooping ==
    [][\A i \in DOMAIN tasks :
          tasks[i].retry.kind = "Infinite" =>
            /\ (Live(tasks[i]) /\ ~Live(tasks'[i]))
                  => (last'.op = "query" /\ last'.arg = "NotFound")
            /\ (tasks[i].pc = "sleep" /\ tasks[i].cur \in NonFiring
                    /\ tasks'[i].pc # "sleep")
                  => /\ ~state'.timed_out
                     /\ tasks'[i].pc = "loop"
                     /\ LoopContinues(tasks'[i])]_vars

\* C20 witness: an Infinite task observed a non-firing state, woke up, and has
\* gone through the loop again.
C20_Witness ==
    \E i \in DOMAIN tasks :
        /\ tasks[i].retry.kind = "Infinite"
        /\ Live(tasks[i])
        /\ Len(tasks[i].obs) >= 2
        /\ tasks[i].obs[1] \in NonFiring

\* ------------------------------------------------------------ parsing

Parsed == parse.stage \in {"parsed", "serialized", "reparsed"}

\* The repeat block of the document being parsed gives times = n.
TimesGiven(n) ==
    /\ parse.doc.repeat # None
    /\ parse.doc.repeat[1].times = [kind |-> "num", n |-> n]

\* The repeat block of the document being parsed gives an interval.
IntervalGiven == parse.doc.repeat # None /\ parse.doc.repeat[1].interval # None

\* C21: parsing a serialized target whose repeat block has times = 0 fails and
\* yields no Target; no parsed Target has Retry::Finite(0).
C21_ZeroTimesRejected ==
    Parsed =>
        /\ TimesGiven(0) => ~parse.got.ok
        /\ parse.got.ok => parse.got.val.times # Finite(0)

\* C22: a parsed target has times = Finite(t) when repeat.times = t is given,
\* otherwise Infinite for the alertmanager kind and Finite(1) for slack and
\* webhook; its interval is the parsed repeat.interval when one is given and
\* 60 seconds otherwise.
C22_ParsedPolicy ==
    (Parsed /\ parse.got.ok) =>
        /\ \A t \in 0..MaxTimes : TimesGiven(t) => parse.got.val.times = Finite(t)
        /\ (~\E t \in 0..MaxTimes : TimesGiven(t)) =>
              parse.got.val.times =
                 IF parse.doc.type = "alertmanager" THEN Infinite ELSE Finite(1)
        /\ IntervalGiven =>
              parse.got.val.interval = SumParts(parse.doc.repeat[1].interval[1])
        /\ ~IntervalGiven => parse.got.val.interval = Duration(60, 0)

\* C22 witness: an alertmanager target whose repeat block gives "1m 30s" and
\* no times has been parsed into Infinite with an interval of 90 seconds.
C22_Witness ==
    /\ parse.stage = "parsed"
    /\ parse.got.ok
    /\ parse.doc.type = "alertmanager"
    /\ IntervalGiven
    /\ parse.doc.repeat[1].interval[1] = <<Part(1, "m"), Part(30, "s")>>
    /\ parse.doc.repeat[1].times.kind = "absent"
    /\ parse.got.val.times = Infinite
    /\ parse.got.val.interval = Duration(90, 0)

\* C24: serializing a parsed Target and parsing the result yields a Target
\* with the same kind, transport fields, interval and Retry.
C24_RoundTrip ==
    parse.stage = "reparsed" =>
        /\ parse.again.ok
        /\ parse.again.val.target = parse.got.val.target
        /\ parse.again.val.interval = parse.got.val.interval
        /\ parse.again.val.times = parse.got.val.times

\* C24 witness: an alertmanager target written without skip_tls_check and
\* without times, with the interval "90s", has been serialized (as "1m 30s",
\* null) and parsed again.
C24_Witness ==
    /\ parse.stage = "reparsed"
    /\ parse.doc.type = "alertmanager"
    /\ parse.doc.skip_tls_check = "absent"
    /\ IntervalGiven
    /\ parse.doc.repeat[1].interval[1] = <<Part(90, "s")>>
    /\ parse.got.val.times = Infinite
    /\ parse.out.repeat[1].interval[1] = <<Part(1, "m"), Part(30, "s")>>
    /\ parse.out.repeat[1].times.kind = "null"

\* ------------------------------------------------------------ the sinks

\* C25: the Alertmanager body is an array of exactly one alert whose
\* labels.status is "triggered", "resolved" or "silenced" after the context's
\* alert_state; annotations.reason is overwritten with default_resolved_string
\* / default_silenced_string exactly on Resolved / Silenced; and endsAt is
\* present if and only if the state is Resolved.
C25_AlertmanagerBody ==
    (sink.stage = "sent" /\ sink.body.kind = "alertmanager") =>
        /\ Len(sink.body.alerts) = 1
        /\ LET a == sink.body.alerts[1]
               st == sink.ctx.alert_state
           IN  /\ a.labels.status =
                     (CASE st = "Triggered" -> "triggered"
                        [] st = "Resolved" -> "resolved"
                        [] st = "Silenced" -> "silenced")
               /\ a.annotations.reason =
                     (CASE st = "Triggered" -> <<"REASON">>
                        [] st = "Resolved" -> default_resolved_string(sink.ctx)
                        [] st = "Silenced" -> default_silenced_string(sink.ctx))
               /\ (a.endsAt # None) <=> (st = "Resolved")

\* C25 witness: the Alertmanager sink has built the body of a Silenced context.
C25_Witness ==
    /\ sink.stage = "sent"
    /\ sink.body.kind = "alertmanager"
    /\ sink.ctx.alert_state = "Silenced"
    /\ Len(sink.body.alerts) = 1

\* --------------------------------------------------------- rolling_mean

\* The rows (counted from 1) of the frame of row r (counted from 0) that hold
\* a value.
FrameValid(values, r, p) ==
    {k \in DOMAIN values : k > SaturatingSub(r, p) /\ k <= r + 1 /\ values[k].valid}

RECURSIVE SumOver(_, _)
SumOver(values, rows) ==
    IF rows = {} THEN 0
    ELSE LET k == CHOOSE x \in rows : TRUE
         IN  values[k].v.v + SumOver(values, rows \ {k})

\* C26: for every row, rolling_mean over ROWS BETWEEN p PRECEDING AND CURRENT
\* ROW returns the arithmetic mean of the non-null values inside that row's
\* frame: nulls count neither in the sum nor in the divisor, and rows that
\* have left the frame do not contribute.
C26_FrameMean ==
    \A k \in DOMAIN roll.out :
        LET rows == FrameValid(roll.values, k - 1, roll.preceding)
        IN  rows # {} =>
                /\ ~roll.out[k].nan
                /\ roll.out[k].num * Cardinality(rows)
                      = SumOver(roll.values, rows) * roll.out[k].den

\* ------------------------------------------ the mutex around TimeoutState

\* Whoever is at a statement that reads or writes the TimeoutState holds the
\* mutex.
AccessUnderLock ==
    /\ \A c \in 1..MaxCallers : mx.callers[c].pc \in CallCritical => mx.holder = Caller(c)
    /\ \A t \in 1..MaxCallers : mx.tasks[t].pc \in TaskCritical => mx.holder = Task(t)

\* The holder is at a statement under its guard: not at a lock(), not at the
\* registry lookup ("loop"), not asleep, not ended; transport tasks never hold.
NotHeldAcrossSuspension ==
    /\ \A c \in 1..MaxCallers : mx.holder = Caller(c) => mx.callers[c].pc \in CallCritical
    /\ \A t \in 1..MaxCallers : mx.holder = Task(t) => mx.tasks[t].pc \in TaskCritical
    /\ mx.holder \in {Free} \cup {Caller(c) : c \in 1..MaxCallers}
                           \cup {Task(t) : t \in 1..MaxCallers}

\* What every thread did between its lock and its release is what the whole
\* operation (call, sleep_and_check_if_call, the reset) does to the
\* TimeoutState it found at the lock.
CriticalSectionsAtomic == mx.atomic

\* A thread waiting at a lock() is never stuck: some step can be taken.
Waiting ==
    \/ \E c \in 1..MaxCallers : mx.callers[c].pc = "start"
    \/ \E t \in 1..MaxCallers : mx.tasks[t].pc \in {"l114", "reset"}

\* C32: every read and write of TimeoutState by Target::call and by the repeat
\* tasks happens with the mutex held, the mutex is never held across a
\* suspension point (sleep, registry lookup, transport call), so that the test
\* of timed_out and the writes after it are atomic with respect to concurrent
\* calls and ticks, and no interleaving deadlocks.
C32_MutexDiscipline ==
    /\ AccessUnderLock
    /\ NotHeldAcrossSuspension
    /\ CriticalSectionsAtomic
    /\ Waiting => ENABLED NextLock

\* A caller is between its test of timed_out and its writes while a repeat
\* task waits for the lock, and a call that ran against another has returned.
C32_Witness ==
    \E c \in 1..MaxCallers : \E t \in 1..MaxCallers :
        /\ mx.holder = Caller(c)
        /\ mx.callers[c].pc = "l78"
        /\ mx.tasks[t].pc = "l114"
        /\ \E d \in 1..MaxCallers : mx.callers[d].pc = "done"

\* The f64 sum of the values of a buffer, front to back.
RECURSIVE BufferSum(_)
BufferSum(buffer) ==
    IF buffer = <<>> THEN F(0)
    ELSE fadd(BufferSum(SubSeq(buffer, 1, Len(buffer) - 1)), buffer[Len(buffer)])

\* C38: after any sequence of add_value and maintain_window(w) calls on a
\* RollingMeanState, count equals buffer.len() and sum equals the sum of the
\* values in buffer; right after maintain_window(w), buffer.len() <= w.
C38_StateInvariant ==
    /\ rms.st.count = Len(rms.st.buffer)
    /\ rms.st.sum = BufferSum(rms.st.buffer)
    /\ rms.op = "maintain_window" => Len(rms.st.buffer) <= rms.w

\* What does hold: count and the bound on the length always, and the sum as
\* long as every value added was finite (and every sum exact).
C38_FiniteSum ==
    /\ rms.st.count = Len(rms.st.buffer)
    /\ rms.finite => rms.st.sum = BufferSum(rms.st.buffer)
    /\ rms.op = "maintain_window" => Len(rms.st.buffer) <= rms.w

\* ---------------------------------------------------------- the scheduler

\* C27: the registry state a scheduler iteration acts upon is read after that
\* iteration's sleep has elapsed: a task that is asleep holds no registry
\* answer yet.
C27_SleepThenQuery ==
    \A i \in DOMAIN tasks : tasks[i].pc = "sleep" => tasks[i].cur = "none"

\* The step is the wake-up of task i: its sleep elapsed and it ran the
\* critical section of sleep_and_check_if_call.
IsWake(i) == tasks[i].pc = "sleep" /\ tasks'[i].pc # "sleep"

\* The step is the call_target of task i after a wake-up with should_call.
IsSend(i) == tasks[i].pc = "send" /\ tasks'[i].pc # "send"

\* C28: on a scheduler iteration whose registry state is Triggered the task
\* sets awaiting_resolve = true, leaves timed_out unchanged, and makes exactly
\* one transport dispatch, after it has released the TimeoutState lock.
C28_WakeOnTriggered ==
    [][\A i \in DOMAIN tasks :
          /\ (IsWake(i) /\ tasks[i].cur = "Triggered") =>
                /\ state'.awaiting_resolve
                /\ state'.timed_out = state.timed_out
                /\ sent' = sent
                /\ tasks'[i].pc = "send"
          /\ IsSend(i) =>
                /\ state' = state
                /\ Len(sent') = Len(sent) + 1
                /\ SubSeq(sent', 1, Len(sent)) = sent
                /\ sent'[Len(sent')].by = "sched"
                /\ ~sent'[Len(sent')].locked
                /\ tasks'[i].pc = "loop"]_vars

\* C28 witness: a task woke up on Triggered after a forwarded non-firing event
\* had cleared awaiting_resolve, and has just made its dispatch.
C28_Witness ==
    /\ last.op = "send"
    /\ state.timed_out
    /\ state.awaiting_resolve
    /\ Len(sent) >= 3
    /\ sent[Len(sent)].by = "sched"
    /\ sent[Len(sent) - 1].by = "call" /\ sent[Len(sent) - 1].st \in NonFiring
    /\ calls = <<"Triggered", sent[Len(sent) - 1].st>>

\* C29: on a scheduler iteration whose registry state is Resolved or Silenced
\* the task sets timed_out = false and makes no transport dispatch.
C29_WakeOnNonFiring ==
    [][\A i \in DOMAIN tasks :
          (IsWake(i) /\ tasks[i].cur \in NonFiring) =>
              /\ ~state'.timed_out
              /\ sent' = sent
              /\ tasks'[i].pc = "loop"]_vars

\* C29 witness: a task has just woken up on Silenced inside a window.
C29_Witness ==
    /\ last.op = "wake"
    /\ last.arg = "Silenced"
    /\ last.pre.timed_out
    /\ ~state.timed_out

\* C30: every Target::call leaves alert_state equal to the state of the event
\* it was given, on the paths that ignore or drop the event too.
C30_CallSetsAlertState ==
    [][\A ev \in AlertState : IsCall(ev) => state'.alert_state = ev]_vars

\* C30 witness: a non-firing event has just been dropped inside a window, and
\* alert_state was something else before.
C30_Witness ==
    /\ last.op = "call"
    /\ last.arg \in NonFiring
    /\ last.pre.timed_out
    /\ ~last.pre.awaiting_resolve
    /\ last.pre.alert_state # last.arg
    /\ state.alert_state = last.arg

\* ------------------------------------------------ transports that fail

\* C23: a transport call that fails or never completes does not change the
\* TimeoutState, does not block a later Target::call and does not stop or
\* delay the repeat task: while dispatched calls are outstanding or have
\* failed, Target::call and the task's next step can still be taken.
C23_TransportFailureIsolated ==
    /\ [][failed' # failed =>
            /\ state' = state
            /\ tasks' = tasks
            /\ sent' = sent]_vars
    /\ [](Len(sent) > 0 =>
            /\ ncalls < MaxCalls => \A ev \in AlertState : ENABLED TargetCall(ev)
            /\ \A i \in DOMAIN tasks : tasks[i].pc = "sleep" => ENABLED TaskWake(i))

\* C23 witness: a transport call has failed and another one is outstanding,
\* inside a window with a repeat task asleep.
C23_Witness ==
    /\ failed
    /\ Len(sent) > 1
    /\ state.timed_out
    /\ \E i \in DOMAIN tasks : tasks[i].pc = "sleep"

\* ------------------------------------------------ order, windows, tasks

\* C31: within one Target::call the TimeoutState update is completed and the
\* lock released before the transport dispatch is issued: no dispatch made by
\* Target::call is issued while the TimeoutState guard is alive.
C31_DispatchAfterRelease ==
    \A k \in DOMAIN sent : sent[k].by = "call" => ~sent[k].locked

\* C34: every transport dispatch made by a repeat task happens in a state
\* where timed_out = true.
C34_SchedulerDispatchInWindow == last.op = "send" => last.pre.timed_out

\* The last operation was a Target::call that forwarded a non-firing event.
ForwardedNonFiring ==
    /\ last.op = "call"
    /\ last.arg \in NonFiring
    /\ call(last.pre, last.arg).dispatch

\* C35: once Target::call has forwarded a Resolved or Silenced notification
\* and the registry reports a non-firing state from then on, no repeat task
\* dispatches Triggered unless a new Target::call(Triggered) arrives.  Checked
\* on the step that follows the forwarding at once, when no lookup has
\* happened since: no task then wakes up to re-send, and none re-sends.
C35_NoTriggeredAfterForward ==
    [][ForwardedNonFiring =>
          \A i \in DOMAIN tasks :
              /\ ~(IsWake(i) /\ tasks[i].cur = "Triggered")
              /\ ~IsSend(i)]_vars

\* C36: in every state with timed_out = true a repeat task is live, or is being
\* spawned by a Target::call that has set the flag and released the lock
\* (between drop(state) and spawn_timeout_task), for every times value that
\* parsing accepts.
C36_TimedOutHasLiveTask ==
    state.timed_out => (LiveTasks # {} \/ spawning # <<>>)

\* C36 without the targets of Retry::Finite(0).
C36_ExceptZeroTimes ==
    (state.timed_out /\ ~Underflows(times)) => (LiveTasks # {} \/ spawning # <<>>)

\* C37: for every target that parsing accepts the Finite task computes
\* times - 1 without underflow and runs strictly fewer than times iterations.
C37_NoUnderflow ==
    \A i \in DOMAIN tasks :
        tasks[i].retry.kind = "Finite" =>
            /\ ~Underflows(tasks[i].retry)
            /\ tasks[i].pc # "panicked"
            /\ tasks[i].iter < tasks[i].retry.n

\* Task i has been spawned and has run to its end through a reset.
Exited(i) == IF i \in DOMAIN tasks THEN tasks[i].pc = "done" ELSE FALSE

\* C33: under fair scheduling and a registry that always answers, every
\* repeat task of a Finite target eventually exits, and every state with
\* timed_out = true is eventually followed by one with timed_out = false.
C33_FiniteTasksExit ==
    /\ \A i \in 1..MaxCalls :
          [](i \in DOMAIN tasks => <>Exited(i))
    /\ (state.timed_out ~> ~state.timed_out)

\* C33 for the targets whose times is at least 1.
C33_ExceptZeroTimes ==
    /\ \A i \in 1..MaxCalls :
          []((i \in DOMAIN tasks /\ ~Underflows(times)) => <>Exited(i))
    /\ ((state.timed_out /\ ~Underflows(times)) ~> ~state.timed_out)

====
